---- MODULE Spec2Model ----
(***************************************************************************)
(* The Thesys request relay (pages/api/thesys.js), the Chat component     *)
(* (components/Chat.js) and the manifest generator of the tools script,    *)
(* as state machines.                                                      *)
(*                                                                         *)
(* A JavaScript string is modelled as the sequence of its lexical chunks   *)
(* (<<"Bearer ", "sk-A">> is "Bearer sk-A"; <<>> is the empty string), so  *)
(* that String.prototype.includes and "this text carries the credential"   *)
(* are computed on the chunks instead of being assumed.                    *)
(***************************************************************************)
EXTENDS Integers, Sequences, FiniteSets, TLC

\* Number of inbound requests the relay serves concurrently.
MaxReqs == 2

Reqs == 1..MaxReqs

-----------------------------------------------------------------------------
(* JavaScript values *)

Undefined == [t |-> "undefined"]
Null == [t |-> "null"]
Bool(b) == [t |-> "boolean", b |-> b]
Num(n) == [t |-> "number", n |-> n]
Infinity == [t |-> "number", inf |-> TRUE]
Text(s) == IF s = "" THEN <<>> ELSE <<s>>
Str(s) == [t |-> "string", s |-> Text(s)]
StrOf(text) == [t |-> "string", s |-> text]
Arr(a) == [t |-> "array", a |-> a]
\* An object is the sequence of its own properties, <<key, value>>, in order.
Obj(o) == [t |-> "object", o |-> o]
\* A number literal of a JSON text: mantissa m, decimal exponent e.
NumLit(m, e) == [t |-> "numlit", m |-> m, e |-> e]

\* ToBoolean: what `!x` and `x || y` test.
Truthy(v) ==
  CASE v.t = "undefined" -> FALSE
    [] v.t = "null" -> FALSE
    [] v.t = "boolean" -> v.b
    [] v.t = "number" -> IF "inf" \in DOMAIN v THEN TRUE ELSE v.n # 0
    [] v.t = "string" -> v.s # <<>>
    [] OTHER -> TRUE

\* a || b
Or(a, b) == IF Truthy(a) THEN a ELSE b

\* String.prototype.includes, for a needle that is one chunk.
Includes(text, needle) == \E i \in DOMAIN text : text[i] = needle

RECURSIVE Pow10(_)
Pow10(e) == IF e = 0 THEN 1 ELSE 10 * Pow10(e - 1)

\* JSON.parse on a well-formed JSON text, given as its syntax tree: a number
\* literal beyond the double range (above 1.79e308) becomes Infinity.
RECURSIVE JSONparse(_)
JSONparse(d) ==
  CASE d.t = "numlit" -> IF d.e > 308 THEN Infinity ELSE Num(d.m * Pow10(d.e))
    [] d.t = "array" -> Arr([i \in DOMAIN d.a |-> JSONparse(d.a[i])])
    [] d.t = "object" ->
         Obj([i \in DOMAIN d.o |-> <<d.o[i][1], JSONparse(d.o[i][2])>>])
    [] OTHER -> d

\* JSON.stringify, first half: the JSON syntax tree of a value. A non-finite
\* number serializes as null.
RECURSIVE JSONserialize(_)
JSONserialize(v) ==
  CASE v.t = "number" -> IF "inf" \in DOMAIN v THEN Null ELSE NumLit(v.n, 0)
    [] v.t = "undefined" -> Null
    [] v.t = "array" -> Arr([i \in DOMAIN v.a |-> JSONserialize(v.a[i])])
    [] v.t = "object" ->
         Obj([i \in DOMAIN v.o |-> <<v.o[i][1], JSONserialize(v.o[i][2])>>])
    [] OTHER -> v

\* The text of a JSON syntax tree, as chunks.
RECURSIVE JSONtext(_)
RECURSIVE JoinText(_, _, _)
JoinText(d, i, isObj) ==
  IF i > Len(d) THEN <<>>
  ELSE (IF i > 1 THEN <<",">> ELSE <<>>)
       \o (IF isObj THEN <<"\"", d[i][1], "\":">> \o JSONtext(d[i][2])
                    ELSE JSONtext(d[i]))
       \o JoinText(d, i + 1, isObj)
JSONtext(d) ==
  CASE d.t = "null" -> <<"null">>
    [] d.t = "boolean" -> IF d.b THEN <<"true">> ELSE <<"false">>
    [] d.t = "numlit" ->
         <<ToString(d.m)>> \o (IF d.e = 0 THEN <<>> ELSE <<"e", ToString(d.e)>>)
    [] d.t = "string" -> <<"\"">> \o d.s \o <<"\"">>
    [] d.t = "array" -> <<"[">> \o JoinText(d.a, 1, FALSE) \o <<"]">>
    [] d.t = "object" -> <<"{">> \o JoinText(d.o, 1, TRUE) \o <<"}">>

\* JSON.stringify(v), v a JSON-serializable value.
JSONstringify(v) == JSONtext(JSONserialize(v))

-----------------------------------------------------------------------------
(* process.env, inbound requests, upstream outcomes *)

ApiUrl == "https://api.thesys.ai/v1/generate"
ApiKey == "sk-thesys-1"

\* process.env.X is undefined when unset, else a string (possibly empty).
EnvValues(s) == {Undefined, Str(""), Str(s)}

Methods == {"GET", "POST", "PUT"}

\* req.body as the body parser leaves it: a parsed JSON value, or a string.
Bodies == {Obj(<<<<"prompt", Str("hi")>>>>), Str("hi")}

ApplicationJson == "application/json"

HiDoc == Obj(<<<<"output", Str("hi")>>>>)

\* An upstream body: a well-formed JSON text (its syntax tree), or other text.
JsonBody(d) == [kind |-> "json", doc |-> d]
RawBody(text) == [kind |-> "raw", text |-> text]

\* The raw text of an upstream body.
BodyText(b) == IF b.kind = "json" THEN JSONtext(b.doc) ELSE b.text

UpResp(status, ct, body, readFails) ==
  [status |-> status, contentType |-> ct, body |-> body, readFails |-> readFails]

\* The responses the upstream may give to the request `call` it received; it
\* has the request's headers, and an endpoint may reflect them (the last one).
UpstreamResponses(call) ==
  {UpResp(200, StrOf(<<ApplicationJson>>), JsonBody(HiDoc), FALSE),
   UpResp(200, StrOf(<<ApplicationJson, "; charset=utf-8">>),
          JsonBody(Obj(<<<<"output", NumLit(1, 999)>>>>)), FALSE),
   UpResp(404, StrOf(<<ApplicationJson>>),
          JsonBody(Obj(<<<<"error", Str("not found")>>>>)), FALSE),
   UpResp(200, StrOf(<<ApplicationJson>>), RawBody(<<"<html>">>), FALSE),
   UpResp(200, StrOf(<<ApplicationJson>>), JsonBody(HiDoc), TRUE),
   UpResp(200, Str("text/plain"), RawBody(<<"plain text">>), FALSE),
   UpResp(200, Str("text/plain"), JsonBody(HiDoc), FALSE),
   UpResp(500, Str("text/plain"), RawBody(<<"upstream down">>), FALSE),
   UpResp(200, Null, RawBody(<<"plain text">>), FALSE),
   UpResp(200, Str("text/plain"), RawBody(<<"plain text">>), TRUE),
   UpResp(401, StrOf(<<ApplicationJson>>),
          JsonBody(Obj(<<<<"rejected", StrOf(call.headers.authorization)>>>>)),
          FALSE)}

\* What a rejected fetch() carries.
FetchErrors == {"fetch failed"}

-----------------------------------------------------------------------------
(* The response object `res` *)

NoBody == [kind |-> "none"]

NewRes ==
  [status |-> 200,
   headers |-> [allow |-> Undefined, contentType |-> Undefined],
   body |-> NoBody]

\* res.setHeader('Allow', v)
SetAllow(res, v) == [res EXCEPT !.headers.allow = v]
SetContentTypeDropped(res, v) == res

\* res.setHeader('content-type', v)
SetContentType(res, v) == [res EXCEPT !.headers.contentType = v]
\* res.status(code)
Status(res, code) == [res EXCEPT !.status = code]
\* res.json(data): the body is the JSON text of data.
Json(res, data) ==
  [res EXCEPT !.body = [kind |-> "json", doc |-> JSONserialize(data)],
              !.headers.contentType =
                 StrOf(<<ApplicationJson, "; charset=utf-8">>)]
\* res.send(text)
Send(res, text) == [res EXCEPT !.body = [kind |-> "text", text |-> text]]

\* The bytes of a response body, as chunks.
ResBodyText(res) ==
  CASE res.body.kind = "json" -> JSONtext(res.body.doc)
    [] res.body.kind = "text" -> res.body.text
    [] OTHER -> <<>>

ErrorBody(msg) == Obj(<<<<"error", Str(msg)>>>>)

MethodNotAllowedBody == ErrorBody("Method not allowed")
NotConfiguredBody == ErrorBody("Thesys API key or URL not configured on server")
ContactErrorBody == ErrorBody("Error contacting Thesys API")

-----------------------------------------------------------------------------
(* The relay handler *)

VARIABLES
  env,        \* process.env: THESYS_API_KEY, THESYS_API_URL
  pc,         \* pc[r]: where the handler invocation for request r stands
  req,        \* req[r]: the inbound request (method, body)
  res,        \* res[r]: the response object of request r
  calls,      \* calls[r]: the fetch() calls issued for request r, in order
  upstream,   \* upstream[r]: the settled upstreamResp, or how fetch() failed
  log,        \* what console.error has written, server-side
  json,       \* Chat.send: what `await res.json()` resolved to
  reply,      \* Chat.send: the text of the assistant message it appends
  input,      \* Chat: the `input` state
  messages,   \* Chat: the `messages` state
  loading,    \* Chat: the `loading` state
  spc,        \* spc[s]: where the s-th invocation of Chat.send stands
  sent,       \* sent[s]: the `input` the s-th invocation of send saw
  sres,       \* sres[s]: the `res` its fetch('/api/thesys') resolved to
  requests,   \* requests[s]: the fetch('/api/thesys') calls it issued
  origin,     \* origin[i]: the invocation of send that appended messages[i]
  fs,         \* the files the manifest generator finds in the working directory
  tpc,        \* where the run of generateManifest stands
  envVars,    \* generateManifest: envVars
  apis,       \* mapExternalApis: apis
  detected,   \* mapExternalApis: the part of detectedArray still to visit
  manifest    \* what generateManifest returned

relayVars == <<env, pc, req, res, calls, upstream, log>>
chatVars == <<json, reply>>
uiVars == <<input, messages, loading, spc, sent, sres, requests, origin>>
toolVars == <<fs, tpc, envVars, apis, detected, manifest>>
vars == <<relayVars, chatVars, uiVars, toolVars>>

NoReq == [method |-> "", body |-> Undefined]
NoUpstream == [kind |-> "none"]

\* No Chat.send has got its response yet.
NoReply == [kind |-> "none"]
ChatIdle == json = Undefined /\ reply = NoReply

\* No request has reached the relay.
RelayIdle ==
  /\ pc = [r \in Reqs |-> "idle"]
  /\ req = [r \in Reqs |-> NoReq]
  /\ res = [r \in Reqs |-> NewRes]
  /\ calls = [r \in Reqs |-> <<>>]
  /\ upstream = [r \in Reqs |-> NoUpstream]
  /\ log = {}

\* Number of invocations of Chat.send in one session of the page.
MaxSends == 2

Sends == 1..MaxSends

NoRes == [kind |-> "none"]

\* The Chat component as mounted: useState(''), useState([]), useState(false).
UiIdle ==
  /\ input = <<>>
  /\ messages = <<>>
  /\ loading = FALSE
  /\ spc = [s \in Sends |-> "idle"]
  /\ sent = [s \in Sends |-> <<>>]
  /\ sres = [s \in Sends |-> NoRes]
  /\ requests = [s \in Sends |-> <<>>]
  /\ origin = <<>>

\* A working directory with none of the files the generator looks for.
EmptyDir ==
  [envExample |-> [kind |-> "missing"], readme |-> [kind |-> "missing"],
   package |-> [kind |-> "missing"], src |-> [kind |-> "missing"]]

NoManifest == [kind |-> "none"]

\* The manifest generator has not run.
ToolIdle ==
  /\ tpc = "idle"
  /\ envVars = <<>>
  /\ apis = <<>>
  /\ detected = <<>>
  /\ manifest = NoManifest

Init ==
  /\ env \in [THESYS_API_KEY : EnvValues(ApiKey), THESYS_API_URL : EnvValues(ApiUrl)]
  /\ RelayIdle
  /\ ChatIdle
  /\ UiIdle
  /\ fs = EmptyDir
  /\ ToolIdle

MethodAllowedAnyWrite(method) == method \in {"POST", "PUT"}

\* req.method !== 'POST' is false.
MethodAllowed(method) == method = "POST"

ConfigMissingKeyOnly(e) == ~Truthy(e.THESYS_API_KEY)

\* !THESYS_API_KEY || !THESYS_API_URL
ConfigMissing(e) == ~Truthy(e.THESYS_API_KEY) \/ ~Truthy(e.THESYS_API_URL)

\* The arguments of the fetch() call.
UpstreamRequestBareKey(url, key, body) ==
  [url |-> url,
   method |-> "POST",
   headers |-> [contentType |-> <<ApplicationJson>>, authorization |-> key.s],
   body |-> JSONstringify(body)]

UpstreamRequest(url, key, body) ==
  [url |-> url,
   method |-> "POST",
   headers |-> [contentType |-> <<ApplicationJson>>,
                authorization |-> <<"Bearer ">> \o key.s],
   body |-> JSONstringify(body)]

IsJsonExact(contentType) == contentType.s = <<ApplicationJson>>

\* contentType.includes('application/json')
IsJson(contentType) == Includes(contentType.s, ApplicationJson)

\* res.status(upstreamResp.status): the status the relay answers with.
RelayStatusAlwaysOk(up) == 200

RelayStatus(up) == up.status

CatchResponseWithDetail(rs, err) == Json(Status(rs, 500), ErrorBody(err))

\* The catch block: the response it sends.
CatchResponse(rs, err) == Json(Status(rs, 500), ContactErrorBody)

\* Lines 9-12: a request that is not a POST.
MethodNotAllowed(r) ==
  /\ pc[r] = "idle"
  /\ \E m \in Methods, b \in Bodies :
       /\ ~MethodAllowed(m)
       /\ req' = [req EXCEPT ![r] = [method |-> m, body |-> b]]
       /\ res' = [res EXCEPT ![r] =
                    Json(Status(SetAllow(NewRes, Arr(<<Str("POST")>>)), 405),
                         MethodNotAllowedBody)]
  /\ pc' = [pc EXCEPT ![r] = "done"]
  /\ UNCHANGED <<env, calls, upstream, log, chatVars, uiVars, toolVars>>

\* Lines 14-19: a POST while the key or the URL is not configured.
NotConfigured(r) ==
  /\ pc[r] = "idle"
  /\ \E m \in Methods, b \in Bodies :
       /\ MethodAllowed(m)
       /\ ConfigMissing(env)
       /\ req' = [req EXCEPT ![r] = [method |-> m, body |-> b]]
       /\ res' = [res EXCEPT ![r] = Json(Status(NewRes, 500), NotConfiguredBody)]
  /\ pc' = [pc EXCEPT ![r] = "done"]
  /\ UNCHANGED <<env, calls, upstream, log, chatVars, uiVars, toolVars>>

\* Lines 21-30: the fetch() call is issued and awaited.
Forward(r) ==
  /\ pc[r] = "idle"
  /\ \E m \in Methods, b \in Bodies :
       /\ MethodAllowed(m)
       /\ ~ConfigMissing(env)
       /\ req' = [req EXCEPT ![r] = [method |-> m, body |-> b]]
       /\ calls' = [calls EXCEPT ![r] =
                      Append(@, UpstreamRequest(env.THESYS_API_URL,
                                                env.THESYS_API_KEY, b))]
  /\ pc' = [pc EXCEPT ![r] = "fetch"]
  /\ UNCHANGED <<env, res, upstream, log, chatVars, uiVars, toolVars>>

FetchRejectedRetry(r) ==
  /\ pc[r] = "fetch"
  /\ Len(calls[r]) < 3
  /\ calls' = [calls EXCEPT ![r] = Append(@, @[1])]
  /\ UNCHANGED <<env, pc, req, res, upstream, log, chatVars, uiVars, toolVars>>

\* Lines 23, 43-46: fetch() rejects.
FetchRejected(r) ==
  /\ pc[r] = "fetch"
  /\ \E err \in FetchErrors :
       /\ upstream' = [upstream EXCEPT ![r] = [kind |-> "rejected", err |-> err]]
       /\ log' = log \cup {[req |-> r, err |-> err]}
       /\ res' = [res EXCEPT ![r] = CatchResponse(@, err)]
  /\ pc' = [pc EXCEPT ![r] = "done"]
  /\ UNCHANGED <<env, req, calls, chatVars, uiVars, toolVars>>

\* Lines 23, 32-35, 39: fetch() resolves; the body is read as the declared
\* content type says.
FetchResolved(r) ==
  /\ pc[r] = "fetch"
  /\ \E up \in UpstreamResponses(calls[r][Len(calls[r])]) :
       /\ upstream' = [upstream EXCEPT ![r] = [kind |-> "response", resp |-> up]]
       /\ pc' = [pc EXCEPT ![r] =
                   IF IsJson(Or(up.contentType, Str(""))) THEN "json" ELSE "text"]
  /\ UNCHANGED <<env, req, res, calls, log, chatVars, uiVars, toolVars>>

\* Lines 35-36, 43-46: upstreamResp.json() settles.
JsonSettled(r) ==
  /\ pc[r] = "json"
  /\ LET up == upstream[r].resp IN
       IF up.readFails \/ up.body.kind # "json"
       THEN LET err == IF up.readFails THEN "terminated" ELSE "SyntaxError" IN
            /\ log' = log \cup {[req |-> r, err |-> err]}
            /\ res' = [res EXCEPT ![r] = CatchResponse(@, err)]
       ELSE /\ res' = [res EXCEPT ![r] =
                         Json(Status(@, RelayStatus(up)), JSONparse(up.body.doc))]
            /\ log' = log
  /\ pc' = [pc EXCEPT ![r] = "done"]
  /\ UNCHANGED <<env, req, calls, upstream, chatVars, uiVars, toolVars>>

\* Lines 39-41, 43-46: upstreamResp.text() settles.
TextSettled(r) ==
  /\ pc[r] = "text"
  /\ LET up == upstream[r].resp IN
       IF up.readFails
       THEN /\ log' = log \cup {[req |-> r, err |-> "terminated"]}
            /\ res' = [res EXCEPT ![r] = CatchResponse(@, "terminated")]
       ELSE /\ res' = [res EXCEPT ![r] =
                         Send(Status(SetContentType(@, Or(up.contentType, Str(""))),
                                     RelayStatus(up)),
                              BodyText(up.body))]
            /\ log' = log
  /\ pc' = [pc EXCEPT ![r] = "done"]
  /\ UNCHANGED <<env, req, calls, upstream, chatVars, uiVars, toolVars>>

Next ==
  \E r \in Reqs :
    \/ MethodNotAllowed(r)
    \/ NotConfigured(r)
    \/ Forward(r)
    \/ FetchRejected(r)
    \/ FetchResolved(r)
    \/ JsonSettled(r)
    \/ TextSettled(r)

Spec == Init /\ [][Next]_vars

-----------------------------------------------------------------------------
(* Chat.send: from the parsed response to the assistant message *)

\* v[k] for a property name k: the own property of an object, undefined on
\* anything else that is not null or undefined.
Prop(v, k) ==
  IF v.t = "object" /\ \E i \in DOMAIN v.o : v.o[i][1] = k
  THEN v.o[CHOOSE i \in DOMAIN v.o : v.o[i][1] = k][2]
  ELSE Undefined

\* v[0]
First(v) == IF v.t = "array" /\ Len(v.a) > 0 THEN v.a[1] ELSE Undefined

\* Array.isArray(v)
IsArray(v) == v.t = "array"

\* Reading a property of null or undefined throws a TypeError.
Nullish(v) == v.t \in {"null", "undefined"}

\* v?.k
OptProp(v, k) == IF Nullish(v) THEN Undefined ELSE Prop(v, k)

RECURSIVE ToJSString(_)
RECURSIVE JoinStrings(_, _)
\* Array.prototype.join(','), which String(array) is.
JoinStrings(a, i) ==
  IF i > Len(a) THEN <<>>
  ELSE (IF i > 1 THEN <<",">> ELSE <<>>)
       \o (IF Nullish(a[i]) THEN <<>> ELSE ToJSString(a[i]))
       \o JoinStrings(a, i + 1)
\* String(v)
ToJSString(v) ==
  CASE v.t = "string" -> v.s
    [] v.t = "number" -> IF "inf" \in DOMAIN v THEN <<"Infinity">> ELSE <<ToString(v.n)>>
    [] v.t = "boolean" -> IF v.b THEN <<"true">> ELSE <<"false">>
    [] v.t = "array" -> JoinStrings(v.a, 1)
    [] v.t = "object" -> <<"[object Object]">>
    [] OTHER -> <<v.t>>

\* json.choices[0].text || json.choices[0].message?.content
ChoiceText(choice) ==
  Or(Prop(choice, "text"), OptProp(Prop(choice, "message"), "content"))

\* Array.isArray(json.choices) && json.choices[0] && (...)
FromChoices(choices) ==
  IF ~IsArray(choices) THEN Bool(FALSE)
  ELSE IF ~Truthy(First(choices)) THEN First(choices)
  ELSE ChoiceText(First(choices))

\* The assistantText expression, for a json whose properties can be read.
AssistantText(j) ==
  Or(Or(Prop(j, "output"), FromChoices(Prop(j, "choices"))), StrOf(JSONstringify(j)))

\* The message of the TypeError that `json.output` throws on null.
NullReadMessage == <<"Cannot read properties of ", "null", " (reading 'output')">>

\* Lines 53-64: the text of the assistant message appended for the payload j.
AssistantMessage(j) ==
  IF Nullish(j)
  THEN [kind |-> "error", text |-> <<"Error: ">> \o NullReadMessage]
  ELSE [kind |-> "reply", text |-> ToJSString(AssistantText(j))]

\* The values of an `output` field, and of a `choices` field.
Outputs ==
  {Str("z"), Str(""), Null, Num(0), Num(7), Bool(FALSE), Bool(TRUE), Arr(<<>>),
   Obj(<<>>)}

ChoiceY == Obj(<<<<"text", Str("y")>>>>)
ChoiceX == Obj(<<<<"message", Obj(<<<<"content", Str("x")>>>>)>>>>)

ChoicesValues ==
  {Arr(<<>>), Str("c"), Null, Arr(<<Null>>), Arr(<<Obj(<<>>)>>), Arr(<<ChoiceY>>),
   Arr(<<ChoiceX>>),
   Arr(<<Obj(<<<<"text", Str("y")>>,
               <<"message", Obj(<<<<"content", Str("x")>>>>)>>>>)>>),
   Arr(<<Obj(<<<<"text", Str("")>>,
               <<"message", Obj(<<<<"content", Str("x")>>>>)>>>>)>>),
   Arr(<<Obj(<<<<"message", Null>>>>)>>),
   Arr(<<Obj(<<<<"message", Str("m")>>>>)>>),
   Arr(<<Obj(<<<<"text", Num(3)>>>>)>>),
   Arr(<<Obj(<<>>), ChoiceY>>)}

Field(k, vals) == {<<>>} \cup {<<<<k, v>>>> : v \in vals}

\* The parsed JSON values a successful relay call can hand to Chat.send.
Payloads ==
  {Obj(o \o c \o f) : o \in Field("output", Outputs),
                      c \in Field("choices", ChoicesValues),
                      f \in Field("foo", {Str("bar")})}
  \cup {Null, Num(5), Str("plain"), Bool(TRUE), Arr(<<>>), Arr(<<ChoiceY>>)}

ChatInit ==
  /\ env = [THESYS_API_KEY |-> Str(ApiKey), THESYS_API_URL |-> Str(ApiUrl)]
  /\ RelayIdle
  /\ ChatIdle
  /\ UiIdle
  /\ fs = EmptyDir
  /\ ToolIdle

\* Line 53: `await res.json()` resolves.
ResponseParsed ==
  /\ reply = NoReply
  /\ json = Undefined
  /\ json' \in Payloads
  /\ UNCHANGED <<relayVars, reply, uiVars, toolVars>>

\* Lines 56-64: the reply is extracted, or the catch block reports the error,
\* and the assistant message is appended.
AppendAssistant ==
  /\ json # Undefined
  /\ reply = NoReply
  /\ reply' = AssistantMessage(json)
  /\ UNCHANGED <<relayVars, json, uiVars, toolVars>>

ChatNext == ResponseParsed \/ AppendAssistant

ChatSpec == ChatInit /\ [][ChatNext]_vars

-----------------------------------------------------------------------------
(* The Chat component: input, messages, loading and overlapping sends *)

Whitespace == {" ", "\t"}

RECURSIVE TrimStart(_)
TrimStart(t) ==
  IF t # <<>> /\ Head(t) \in Whitespace THEN TrimStart(Tail(t)) ELSE t

RECURSIVE TrimEnd(_)
TrimEnd(t) ==
  IF t # <<>> /\ t[Len(t)] \in Whitespace
  THEN TrimEnd(SubSeq(t, 1, Len(t) - 1))
  ELSE t

TrimNone(t) == t

\* input.trim()
Trim(t) == TrimEnd(TrimStart(t))

\* What the user can have typed into the text input.
Inputs == {<<>>, <<" ">>, <<"hi">>, <<" ", "yo", "\t">>}

\* What fetch('/api/thesys') can resolve to: a status, a body, and whether
\* reading the body fails.
UiRes(status, body, readFails) ==
  [kind |-> "response", status |-> status, body |-> body, readFails |-> readFails]

UiResponses ==
  {UiRes(200, JsonBody(Obj(<<<<"output", Str("z")>>>>)), FALSE),
   UiRes(200, JsonBody(Null), FALSE),
   UiRes(200, RawBody(<<"plain text">>), FALSE),
   UiRes(200, JsonBody(HiDoc), TRUE),
   UiRes(500, JsonBody(ContactErrorBody), FALSE),
   UiRes(404, RawBody(<<>>), FALSE),
   UiRes(502, RawBody(<<"bad gateway">>), TRUE)}

\* res.ok
Ok(r) == r.status \in 200..299

FailedToFetch == <<"Failed to fetch">>
BodyReadError == <<"network error">>
NotJsonError == <<"Unexpected token">>

\* { prompt: trimmed }
PromptPayload(trimmed) == Obj(<<<<"prompt", StrOf(trimmed)>>>>)

\* fetch('/api/thesys', { method, headers, body })
ApiRequest(trimmed) ==
  [url |-> "/api/thesys", method |-> "POST",
   headers |-> [contentType |-> <<ApplicationJson>>],
   body |-> JSONstringify(PromptPayload(trimmed))]

UserMessage(trimmed) == [role |-> "user", text |-> trimmed]

AssistantErrorBare(msg) == [role |-> "assistant", text |-> msg]

\* { role: 'assistant', text: 'Error: ' + String(err.message) }
AssistantError(msg) == [role |-> "assistant", text |-> <<"Error: ">> \o msg]

\* { role: 'assistant', text: String(assistantText) }, or the catch block's
\* message when extracting the reply throws.
AssistantFor(j) == [role |-> "assistant", text |-> AssistantMessage(j).text]

PrependMessage(m, msg) == <<msg>> \o m

\* (m) => [...m, msg]
AppendMessage(m, msg) == Append(m, msg)

CanSendWhenNotLoading(via, isLoading) == ~isLoading

\* send is reached by Enter in the input at any time, and by the Send button
\* unless it is disabled (disabled={loading}).
CanSend(via, isLoading) == via = "click" => ~isLoading

\* The invocations of send are numbered in the order they are made.
IsNextSend(s) == spc[s] = "idle" /\ \A k \in 1..(s - 1) : spc[k] # "idle"

InFlight(s) == spc[s] \in {"fetch", "text", "json"}

\* The try block ends or the catch block runs: the assistant message is
\* appended, then `finally` resets loading.
Finish(s, msg) ==
  /\ messages' = AppendMessage(messages, msg)
  /\ origin' = Append(origin, s)
  /\ loading' = FALSE
  /\ spc' = [spc EXCEPT ![s] = "done"]
  /\ UNCHANGED <<input, sent, sres, requests>>

\* onChange: setInput(e.target.value)
Type ==
  /\ \E t \in Inputs : t # input /\ input' = t
  /\ UNCHANGED <<relayVars, chatVars, toolVars>>
  /\ UNCHANGED <<messages, loading, spc, sent, sres, requests, origin>>

\* Lines 32-33: send with nothing but whitespace typed returns at once.
SendReturnsEarly(s) ==
  /\ IsNextSend(s)
  /\ \E via \in {"enter", "click"} : CanSend(via, loading)
  /\ Trim(input) = <<>>
  /\ spc' = [spc EXCEPT ![s] = "returned"]
  /\ sent' = [sent EXCEPT ![s] = input]
  /\ UNCHANGED <<relayVars, chatVars, toolVars>>
  /\ UNCHANGED <<input, messages, loading, sres, requests, origin>>

\* Lines 32-46: the user message is appended, the input cleared, loading set
\* and the request issued.
SendStarts(s) ==
  /\ IsNextSend(s)
  /\ \E via \in {"enter", "click"} : CanSend(via, loading)
  /\ Trim(input) # <<>>
  /\ messages' = AppendMessage(messages, UserMessage(Trim(input)))
  /\ origin' = Append(origin, s)
  /\ input' = <<>>
  /\ loading' = TRUE
  /\ requests' = [requests EXCEPT ![s] = Append(@, ApiRequest(Trim(input)))]
  /\ sent' = [sent EXCEPT ![s] = input]
  /\ spc' = [spc EXCEPT ![s] = "fetch"]
  /\ UNCHANGED <<relayVars, chatVars, toolVars, sres>>

FetchRejectsSilently(s) ==
  /\ spc[s] = "fetch"
  /\ spc' = [spc EXCEPT ![s] = "done"]
  /\ loading' = FALSE
  /\ UNCHANGED <<relayVars, chatVars, toolVars>>
  /\ UNCHANGED <<input, messages, sent, sres, requests, origin>>

\* Lines 42, 62-67: fetch rejects.
FetchRejects(s) ==
  /\ spc[s] = "fetch"
  /\ Finish(s, AssistantError(FailedToFetch))
  /\ UNCHANGED <<relayVars, chatVars, toolVars>>

\* Lines 42-53: fetch resolves; the body is read as text when the response is
\* not ok, as JSON when it is.
FetchResolves(s) ==
  /\ spc[s] = "fetch"
  /\ \E r \in UiResponses :
       /\ sres' = [sres EXCEPT ![s] = r]
       /\ spc' = [spc EXCEPT ![s] = IF Ok(r) THEN "json" ELSE "text"]
  /\ UNCHANGED <<relayVars, chatVars, toolVars>>
  /\ UNCHANGED <<input, messages, loading, sent, requests, origin>>

\* Lines 49-50, 62-67: res.text() settles and the error is thrown and caught.
ErrTextSettles(s) ==
  /\ spc[s] = "text"
  /\ LET r == sres[s] IN
     Finish(s, AssistantError(
                 IF r.readFails THEN BodyReadError
                 ELSE IF BodyText(r.body) # <<>> THEN BodyText(r.body)
                 ELSE <<"Upstream error">>))
  /\ UNCHANGED <<relayVars, chatVars, toolVars>>

\* Lines 53-67: res.json() settles; the reply or the error is appended.
JsonSettles(s) ==
  /\ spc[s] = "json"
  /\ LET r == sres[s] IN
     Finish(s, IF r.readFails THEN AssistantError(BodyReadError)
               ELSE IF r.body.kind # "json" THEN AssistantError(NotJsonError)
               ELSE AssistantFor(JSONparse(r.body.doc)))
  /\ UNCHANGED <<relayVars, chatVars, toolVars>>

UiInit ==
  /\ env = [THESYS_API_KEY |-> Str(ApiKey), THESYS_API_URL |-> Str(ApiUrl)]
  /\ RelayIdle
  /\ ChatIdle
  /\ UiIdle
  /\ fs = EmptyDir
  /\ ToolIdle

UiNext ==
  \/ Type
  \/ \E s \in Sends :
       \/ SendReturnsEarly(s)
       \/ SendStarts(s)
       \/ FetchRejects(s)
       \/ FetchResolves(s)
       \/ ErrTextSettles(s)
       \/ JsonSettles(s)

UiSpec == UiInit /\ [][UiNext]_vars

-----------------------------------------------------------------------------
(* The manifest generator (tools script): generateManifest and its helpers *)

\* A path is the sequence of its segments. The text of a file is given by
\* what the generator reads off it: its lines (each the sequence of its
\* chunks), its content as JSON.parse sees it, the URLs urlPattern matches
\* and the handlers the method pattern matches.
NoText == [lines |-> <<>>, body |-> RawBody(<<>>), urls |-> <<>>, methods |-> <<>>]
EnvText(lines) == [NoText EXCEPT !.lines = lines]
JsonText(body) == [NoText EXCEPT !.body = body]
CodeText(urls, methods) == [NoText EXCEPT !.urls = urls, !.methods = methods]

Missing == [kind |-> "missing"]
File(text) == [kind |-> "file", text |-> text]
Dir(files) == [kind |-> "dir", files |-> files]
SrcFile(segs, text) == [segs |-> segs, text |-> text]

\* How a call of a helper ends for its caller: it returns a value, or throws.
Return(v) == [kind |-> "return", value |-> v]
Thrown == [kind |-> "thrown"]

GoogleEndpoint == <<"https://www.googleapis.com/customsearch/v1">>
ThesysEndpoint == <<"https://api.thesys.dev/">>
ExampleUrl == <<"https://example.com/", "api">>

EnvExamples ==
  {Missing,
   File(NoText),
   File(EnvText(<<<<"THESYS_API_KEY", "=", "[", "value", "]">>>>)),
   File(EnvText(<<<<"GOOGLE_API_KEY", "=">>, <<"GOOGLE_CX", "=", "abc">>>>)),
   File(EnvText(<<<<"# keys">>, <<"GEMINI_API_KEY", " ", "=", " ", "key">>>>)),
   File(EnvText(<<<<"THESYS_API_KEY", "=", "sk">>,
                  <<"GEMINI_API_KEY", "=", "[", "]">>,
                  <<"export ", "NODE_ENV", "=", "dev">>>>)),
   File(EnvText(<<<<"GOOGLE_API_KEY", "=", "g">>, <<"THESYS_API_KEY", "=", "t">>,
                  <<"GEMINI_API_KEY", "=", "m">>, <<"THESYS_API_KEY", "=", "u">>>>))}

Readmes ==
  {Missing,
   File(EnvText(<<<<"# Template">>>>)),
   File(EnvText(<<<<"THESYS_API_KEY", "=", "[", "your key", "]">>>>)),
   File(EnvText(<<<<"GOOGLE_CX", "=", "cx">>, <<"GEMINI_API_KEY", "=">>>>))}

Packages ==
  {Missing,
   File(JsonText(RawBody(<<"{ \"scripts\": ">>))),
   File(JsonText(JsonBody(Null))),
   File(JsonText(JsonBody(Obj(<<<<"name", Str("template-c1-next")>>>>)))),
   File(JsonText(JsonBody(Obj(<<<<"scripts", Obj(<<>>)>>>>)))),
   File(JsonText(JsonBody(Obj(<<<<"scripts",
          Obj(<<<<"dev", Str("next dev")>>, <<"test", Str("jest")>>>>)>>>>))))}

Srcs ==
  {Missing,
   Dir(<<>>),
   Dir(<<SrcFile(<<"src", "app", "page.tsx">>, NoText),
         SrcFile(<<"src", "app", "api", "thesys", "route.ts">>,
                 CodeText(<<ThesysEndpoint \o <<"v1/chat">>>>, <<"POST">>)),
         SrcFile(<<"src", "lib", "search.js">>,
                 CodeText(<<GoogleEndpoint \o <<"?key=">>, ExampleUrl>>, <<>>))>>),
   Dir(<<SrcFile(<<"src", "app", "(main)", "layout.tsx">>, NoText),
         SrcFile(<<"src", "app", "hook", "route.js">>, CodeText(<<>>, <<>>)),
         SrcFile(<<"src", "notes.md">>, CodeText(<<<<"https://docs.example/">>>>, <<>>)),
         SrcFile(<<"src", "lib", "client.ts">>,
                 CodeText(<<ExampleUrl, ExampleUrl, ExampleUrl \o <<"/v2">>>>, <<>>))>>),
   Dir(<<SrcFile(<<"src", "a.ts">>, CodeText(<<ExampleUrl>>, <<>>)),
         SrcFile(<<"src", "b.js">>,
                 CodeText(<<ExampleUrl \o <<"/v2">>, <<"https://api.thesys.dev">>>>,
                          <<>>))>>)}

FileSystems ==
  [envExample : EnvExamples, readme : Readmes, package : Packages, src : Srcs]

SrcFiles == IF fs.src.kind = "dir" THEN fs.src.files ELSE <<>>

SrcPaths == [i \in DOMAIN SrcFiles |-> SrcFiles[i].segs]

\* The path p is below the directory dir.
Under(dir, p) == Len(dir) < Len(p) /\ SubSeq(p, 1, Len(dir)) = dir

\* What the path p names in the working directory.
Entry(p) ==
  CASE p = <<".">> -> Dir(<<>>)
    [] p = <<".env.example">> -> fs.envExample
    [] p = <<"README.md">> -> fs.readme
    [] p = <<"package.json">> -> fs.package
    [] p = <<"src">> -> fs.src
    [] OTHER ->
         IF \E i \in DOMAIN SrcFiles : SrcFiles[i].segs = p
         THEN File(SrcFiles[CHOOSE i \in DOMAIN SrcFiles : SrcFiles[i].segs = p].text)
         ELSE IF \E i \in DOMAIN SrcFiles : Under(p, SrcFiles[i].segs)
         THEN Dir(<<>>)
         ELSE Missing

fileExistsAlways(p) == TRUE

\* fs.accessSync succeeds.
fileExists(p) == Entry(p).kind # "missing"

\* fs.readFileSync, "" when it throws.
readText(p) == IF Entry(p).kind = "file" THEN Entry(p).text ELSE NoText

TopPaths ==
  SelectSeq(<<<<".env.example">>, <<"README.md">>, <<"package.json">>>>,
            LAMBDA p : Entry(p).kind = "file")

\* The files below dir, depth first; fs.readdirSync throws when dir is not
\* a directory it can read.
listFilesRecursive(dir) ==
  IF ~fileExists(dir) THEN Return(<<>>)
  ELSE IF Entry(dir).kind # "dir" THEN Thrown
  ELSE IF dir = <<".">> THEN Return(TopPaths \o SrcPaths)
  ELSE Return(SelectSeq(SrcPaths, LAMBDA p : Under(dir, p)))

\* The chunks that /[A-Z0-9_]+/ matches whole.
EnvNames ==
  {"GOOGLE_API_KEY", "GOOGLE_CX", "THESYS_API_KEY", "GEMINI_API_KEY", "NODE_ENV"}

\* \s*
AfterSpace(l) == TrimStart(l)

NoMatch == [matched |-> FALSE]

\* line.match(/^([A-Z0-9_]+)\s*=\s*(.*)$/)
MatchLine(l) ==
  IF l # <<>> /\ l[1] \in EnvNames
  THEN LET r == AfterSpace(Tail(l)) IN
       IF r # <<>> /\ r[1] = "="
       THEN [matched |-> TRUE, name |-> l[1], example |-> AfterSpace(Tail(r))]
       ELSE NoMatch
  ELSE NoMatch

\* /^([A-Z0-9_]+)\s*=\s*\[.*\]$/gm
MatchBlock(l) ==
  LET m == MatchLine(l) IN
  IF m.matched /\ Len(m.example) >= 2 /\ m.example[1] = "["
     /\ m.example[Len(m.example)] = "]"
  THEN m ELSE NoMatch

\* The body of both loops: a name not seen is pushed, a name seen gets the
\* path added to its foundIn unless it is there.
AddEnv(e, name, path, example) ==
  IF \E i \in DOMAIN e : e[i].name = name
  THEN LET idx == CHOOSE i \in DOMAIN e :
                    e[i].name = name /\ \A j \in 1..(i - 1) : e[j].name # name
       IN IF \E k \in DOMAIN e[idx].foundIn : e[idx].foundIn[k] = path
          THEN e
          ELSE [e EXCEPT ![idx].foundIn = Append(@, path)]
  ELSE Append(e, [name |-> name, foundIn |-> <<path>>, example |-> example])

\* In the loops below, CHOOSE r \in {F(x) : x \in {v}} : TRUE is F(v) with v
\* computed once, as a loop computes once the array it hands to its next turn.
RECURSIVE LinePass(_, _, _, _)
LinePass(e, path, lines, i) ==
  IF i > Len(lines) THEN e
  ELSE LET m == MatchLine(lines[i]) IN
       CHOOSE r \in {LinePass(x, path, lines, i + 1) :
                      x \in {IF m.matched THEN AddEnv(e, m.name, path, m.example)
                             ELSE e}} : TRUE

RECURSIVE BlockPass(_, _, _, _)
BlockPass(e, path, lines, i) ==
  IF i > Len(lines) THEN e
  ELSE LET m == MatchBlock(lines[i]) IN
       CHOOSE r \in {BlockPass(x, path, lines, i + 1) :
                      x \in {IF m.matched THEN AddEnv(e, m.name, path, <<"[]">>)
                             ELSE e}} : TRUE

ScanSource(e, path) ==
  LET content == readText(path) IN
  IF content = NoText THEN e
  ELSE CHOOSE r \in {BlockPass(x, path, content.lines, 1) :
                      x \in {LinePass(e, path, content.lines, 1)}} : TRUE

extractEnvVars ==
  CHOOSE r \in {ScanSource(x, <<"README.md">>) :
                 x \in {ScanSource(<<>>, <<".env.example">>)}} : TRUE

Api(name, endpoints, envNames, detectedIn, confidence) ==
  [name |-> name, endpoints |-> endpoints, env |-> envNames,
   detectedIn |-> detectedIn, confidence |-> confidence]

\* Lines 218-247: the entries the env var names give.
KnownApis(e) ==
  LET names == {e[i].name : i \in DOMAIN e} IN
  (IF "GOOGLE_API_KEY" \in names \/ "GOOGLE_CX" \in names
   THEN <<Api("Google Custom Search", <<GoogleEndpoint>>,
              <<"GOOGLE_API_KEY", "GOOGLE_CX">>, <<>>, "high")>>
   ELSE <<>>)
  \o (IF "THESYS_API_KEY" \in names
      THEN <<Api("Thesys AI", <<ThesysEndpoint>>, <<"THESYS_API_KEY">>, <<>>,
                 "medium")>>
      ELSE <<>>)
  \o (IF "GEMINI_API_KEY" \in names
      THEN <<Api("Gemini (Google Generative AI)", <<>>, <<"GEMINI_API_KEY">>,
                 <<>>, "medium")>>
      ELSE <<>>)

\* The file names that /\.(ts|tsx|js|jsx|mjs|cjs)$/ matches.
CodeNames ==
  {"page.tsx", "route.ts", "route.js", "layout.tsx", "search.js", "client.ts",
   "a.ts", "b.js"}

IsCodeFile(p) == p[Len(p)] \in CodeNames

\* detected.add(JSON.stringify({ url, file })): a Set keeps the first of equals.
AddDetected(d, url, file) ==
  IF \E i \in DOMAIN d : d[i] = [url |-> url, file |-> file] THEN d
  ELSE Append(d, [url |-> url, file |-> file])

RECURSIVE DetectUrls(_, _, _, _)
DetectUrls(d, file, urls, i) ==
  IF i > Len(urls) THEN d
  ELSE CHOOSE r \in {DetectUrls(x, file, urls, i + 1) :
                      x \in {AddDetected(d, urls[i], file)}} : TRUE

RECURSIVE DetectFiles(_, _, _)
DetectFiles(d, files, i) ==
  IF i > Len(files) THEN d
  ELSE CHOOSE r \in {DetectFiles(x, files, i + 1) :
                      x \in {DetectUrls(d, files[i], readText(files[i]).urls, 1)}} :
         TRUE

\* Lines 250-263.
DetectedArray(files) == DetectFiles(<<>>, SelectSeq(files, IsCodeFile), 1)

\* String.prototype.startsWith
StartsWith(text, prefix) ==
  Len(prefix) <= Len(text) /\ SubSeq(text, 1, Len(prefix)) = prefix

\* a.endpoints[0] || ""
FirstEndpoint(a) == IF a.endpoints = <<>> THEN <<>> ELSE a.endpoints[1]

\* Lines 265-276: one turn of the loop over the detected URLs.
MatchUrl(a, d) ==
  IF \E i \in DOMAIN a : StartsWith(d.url, FirstEndpoint(a[i]))
  THEN LET known == CHOOSE i \in DOMAIN a :
                      /\ StartsWith(d.url, FirstEndpoint(a[i]))
                      /\ \A j \in 1..(i - 1) : ~StartsWith(d.url, FirstEndpoint(a[j]))
       IN IF \E k \in DOMAIN a[known].detectedIn : a[known].detectedIn[k] = d.file
          THEN a
          ELSE [a EXCEPT ![known].detectedIn = Append(@, d.file)]
  ELSE Append(a, Api("External API", <<d.url>>, <<>>, <<d.file>>, "low"))

\* The segments in parentheses.
RouteGroups == {"(main)"}

\* toRoutePath, the path as its segments.
toRoutePath(relParts) == SelectSeq(relParts, LAMBDA p : p \notin RouteGroups)

\* Lines 299-342: the routes the file f gives.
RoutesOfFile(f) ==
  LET rel == SubSeq(f, 3, Len(f))
      filename == rel[Len(rel)]
      segments == SubSeq(rel, 1, Len(rel) - 1)
      pathStr == toRoutePath(segments)
      methods == readText(f).methods
  IN IF filename \in {"page.tsx", "page.jsx"}
     THEN <<[type |-> "page", path |-> pathStr, file |-> f]>>
     ELSE IF filename \in {"route.ts", "route.js"}
     THEN LET type == IF segments # <<>> /\ segments[1] = "api" THEN "api" ELSE "route"
          IN IF methods # <<>>
             THEN <<[type |-> type, path |-> pathStr, file |-> f, methods |-> methods]>>
             ELSE <<[type |-> type, path |-> pathStr, file |-> f]>>
     ELSE IF filename \in {"layout.tsx", "layout.jsx"}
     THEN <<[type |-> "layout", path |-> pathStr, file |-> f]>>
     ELSE <<>>

RECURSIVE RoutesOf(_, _)
RoutesOf(files, i) ==
  IF i > Len(files) THEN <<>> ELSE RoutesOfFile(files[i]) \o RoutesOf(files, i + 1)

extractRoutes ==
  LET files == listFilesRecursive(<<"src", "app">>) IN
  IF files.kind = "thrown" THEN Thrown ELSE Return(RoutesOf(files.value, 1))

\* Object.entries of an object or an array.
ObjectEntries(v) ==
  CASE v.t = "object" -> v.o
    [] v.t = "array" -> [i \in DOMAIN v.a |-> <<ToString(i - 1), v.a[i]>>]
    [] OTHER -> <<>>

extractPackageScripts ==
  IF ~fileExists(<<"package.json">>) THEN <<>>
  ELSE LET text == readText(<<"package.json">>) IN
       IF text.body.kind # "json" THEN <<>>
       ELSE LET pkg == JSONparse(text.body.doc) IN
            IF Nullish(pkg) THEN <<>>
            ELSE LET entries == ObjectEntries(Or(Prop(pkg, "scripts"), Obj(<<>>)))
                 IN [i \in DOMAIN entries |->
                       [name |-> entries[i][1], command |-> entries[i][2],
                        source |-> "package.json"]]

Heuristic(name, command) ==
  [name |-> name, command |-> Str(command), source |-> "heuristic"]

HeuristicScripts ==
  <<Heuristic("dev", "next dev --turbopack"), Heuristic("build", "next build"),
    Heuristic("start", "next start"), Heuristic("lint", "next lint"),
    Heuristic("format:fix", "prettier --write .")>>

Description(name) ==
  CASE name = "THESYS_API_KEY" -> "API key for Thesys AI service"
    [] name = "GOOGLE_API_KEY" -> "API key for Google Custom Search"
    [] name = "GOOGLE_CX" -> "Google Custom Search Engine ID"
    [] name = "GEMINI_API_KEY" -> "API key for Gemini (Google Generative AI)"
    [] OTHER -> ""

\* new Date().toISOString()
Timestamps == {"2025-01-01T00:00:00.000Z", "2026-01-01T00:00:00.000Z"}

\* Lines 362-405, with the env vars and the external APIs at hand.
generateManifest(e, externalApis, generatedAt) ==
  LET routes == extractRoutes
      packageScripts == extractPackageScripts
      filesScanned == listFilesRecursive(<<".">>)
  IN IF routes.kind = "thrown" \/ filesScanned.kind = "thrown" THEN Thrown
     ELSE Return(
          [manifestVersion |-> 1,
           generatedAt |-> generatedAt,
           source |-> "Automated repository scan",
           project |-> [name |-> "template-c1-next", framework |-> "Next.js",
                        language |-> "TypeScript"],
           buildTools |-> <<"PostCSS", "ESLint", "Prettier">>,
           packageScripts |->
             IF Len(packageScripts) # 0 THEN packageScripts ELSE HeuristicScripts,
           environmentVariables |->
             [i \in DOMAIN e |->
                [name |-> e[i].name, description |-> Description(e[i].name),
                 foundIn |-> e[i].foundIn, example |-> e[i].example]],
           routes |-> routes.value,
           externalApis |-> externalApis,
           filesScanned |-> filesScanned.value])

\* Line 360.
ExtractEnvVars ==
  /\ tpc = "start"
  /\ envVars' = extractEnvVars
  /\ tpc' = "map"
  /\ UNCHANGED <<relayVars, chatVars, uiVars, fs, apis, detected, manifest>>

\* Lines 218-263: the known entries are built and the code scanned for URLs.
ScanCode ==
  /\ tpc = "map"
  /\ LET files == listFilesRecursive(<<"src">>) IN
     IF files.kind = "thrown"
     THEN tpc' = "threw" /\ UNCHANGED <<apis, detected>>
     ELSE /\ apis' = KnownApis(envVars)
          /\ detected' = DetectedArray(files.value)
          /\ tpc' = "match"
  /\ UNCHANGED <<relayVars, chatVars, uiVars, fs, envVars, manifest>>

\* Lines 264-277: the loop takes the next detected URL.
MatchDetected ==
  /\ tpc = "match"
  /\ detected # <<>>
  /\ apis' = MatchUrl(apis, Head(detected))
  /\ detected' = Tail(detected)
  /\ UNCHANGED <<relayVars, chatVars, uiVars, fs, tpc, envVars, manifest>>

\* Lines 279, 362-411: mapExternalApis returns, the manifest is assembled and
\* written.
WriteManifest ==
  /\ tpc = "match"
  /\ detected = <<>>
  /\ \E generatedAt \in Timestamps :
       LET m == generateManifest(envVars, apis, generatedAt) IN
       IF m.kind = "thrown"
       THEN tpc' = "threw" /\ UNCHANGED manifest
       ELSE tpc' = "done" /\ manifest' = m.value
  /\ UNCHANGED <<relayVars, chatVars, uiVars, fs, envVars, apis, detected>>

ManifestInit ==
  /\ env = [THESYS_API_KEY |-> Str(ApiKey), THESYS_API_URL |-> Str(ApiUrl)]
  /\ RelayIdle
  /\ ChatIdle
  /\ UiIdle
  /\ fs \in FileSystems
  /\ tpc = "start"
  /\ envVars = <<>>
  /\ apis = <<>>
  /\ detected = <<>>
  /\ manifest = NoManifest

ManifestNext ==
  \/ ExtractEnvVars
  \/ ScanCode
  \/ MatchDetected
  \/ WriteManifest

ManifestSpec == ManifestInit /\ [][ManifestNext]_vars

-----------------------------------------------------------------------------
(* Vocabulary of the properties of the relay *)

Responded(r) == pc[r] = "done"

IsPost(r) == req[r].method = "POST"

Absent(v) == v \in {Undefined, Str("")}

ConfigAbsent == Absent(env.THESYS_API_KEY) \/ Absent(env.THESYS_API_URL)

GotResponse(r) == upstream[r].kind = "response"

\* The upstream response declares a JSON content type.
DeclaresJson(up) ==
  /\ up.contentType # Null
  /\ \E i \in DOMAIN up.contentType.s : up.contentType.s[i] = "application/json"

\* Forwarding or reading the upstream response threw.
Threw(r) ==
  \/ upstream[r].kind = "rejected"
  \/ /\ GotResponse(r)
     /\ \/ upstream[r].resp.readFails
        \/ DeclaresJson(upstream[r].resp) /\ upstream[r].resp.body.kind = "raw"

GenericError(r) ==
  /\ res[r].status = 500
  /\ res[r].body =
       [kind |-> "json", doc |-> Obj(<<<<"error", Str("Error contacting Thesys API")>>>>)]

\* The text carries the value of the credential.
CarriesCredential(text) ==
  /\ env.THESYS_API_KEY.t = "string"
  /\ \E i \in DOMAIN text, j \in DOMAIN env.THESYS_API_KEY.s :
       text[i] = env.THESYS_API_KEY.s[j]

HeaderText(h) ==
  CASE h.t = "string" -> h.s
    [] h.t = "array" -> [i \in DOMAIN h.a |-> h.a[i].s[1]]
    [] OTHER -> <<>>

RECURSIVE InRange(_)
\* No number literal of the JSON text lies beyond the double range.
InRange(d) ==
  CASE d.t = "numlit" -> d.e <= 308
    [] d.t = "array" -> \A i \in DOMAIN d.a : InRange(d.a[i])
    [] d.t = "object" -> \A i \in DOMAIN d.o : InRange(d.o[i][2])
    [] OTHER -> TRUE

-----------------------------------------------------------------------------
(* C1 *)

\* C1: no response the relay sends carries the credential, in its body or in
\* its headers, whatever the request, the configuration and the upstream
\* outcome.
C1_NoCredentialInResponse ==
  \A r \in Reqs :
    /\ ~CarriesCredential(ResBodyText(res[r]))
    /\ ~CarriesCredential(HeaderText(res[r].headers.allow))
    /\ ~CarriesCredential(HeaderText(res[r].headers.contentType))

-----------------------------------------------------------------------------
(* C2 *)

C2_State ==
  \A r \in Reqs :
    (Responded(r) /\ ~IsPost(r)) =>
      /\ res[r].status = 405
      /\ res[r].headers.allow = Arr(<<Str("POST")>>)
      /\ calls[r] = <<>>

C2_Terminal ==
  \A r \in Reqs :
    Responded(r) => /\ pc'[r] = "done"
                    /\ res'[r] = res[r]
                    /\ calls'[r] = calls[r]

\* C2: a request whose method is not POST is answered 405 with Allow: POST and
\* without any upstream call, and nothing happens for that request afterwards.
C2_NonPostMethodNotAllowed == []C2_State /\ [][C2_Terminal]_vars

C2_Witness ==
  \E r \in Reqs : Responded(r) /\ req[r].method = "GET" /\ res[r].status = 405

-----------------------------------------------------------------------------
(* C3 *)

\* C3 as stated: whenever the configuration is absent, every request is
\* answered with the configuration error and no upstream call is made.
C3_EveryRequestConfigError ==
  \A r \in Reqs :
    (Responded(r) /\ ConfigAbsent) =>
      /\ res[r].status = 500
      /\ res[r].body = [kind |-> "json", doc |-> NotConfiguredBody]
      /\ calls[r] = <<>>

\* C3, amended: with the configuration absent no request causes an upstream
\* call; a POST is answered with the configuration error, any other method
\* with 405 (the method is checked first).
C3_PostConfigError ==
  \A r \in Reqs :
    ConfigAbsent =>
      /\ calls[r] = <<>>
      /\ pc[r] \in {"idle", "done"}
      /\ Responded(r) =>
           IF IsPost(r)
           THEN /\ res[r].status = 500
                /\ res[r].body =
                     [kind |-> "json",
                      doc |-> Obj(<<<<"error",
                          Str("Thesys API key or URL not configured on server")>>>>)]
           ELSE res[r].status = 405

C3_Witness ==
  \E r \in Reqs :
    /\ Responded(r) /\ IsPost(r) /\ res[r].status = 500
    /\ env.THESYS_API_KEY = Str(ApiKey) /\ env.THESYS_API_URL = Undefined

-----------------------------------------------------------------------------
(* C4 *)

\* C4: when forwarding or reading the upstream response throws, the relay
\* answers 500 with the fixed generic body; the error is logged, and neither
\* it nor the credential is in the response.
C4_ThrowGivesGeneric500 ==
  \A r \in Reqs :
    (Responded(r) /\ Threw(r)) =>
      /\ GenericError(r)
      /\ ~CarriesCredential(ResBodyText(res[r]))
      /\ \E e \in log : e.req = r
      /\ \A e \in log : e.req = r => ~Includes(ResBodyText(res[r]), e.err)

C4_Witness ==
  \E r \in Reqs :
    /\ Responded(r) /\ upstream[r].kind = "rejected"
    /\ [req |-> r, err |-> "fetch failed"] \in log

-----------------------------------------------------------------------------
(* C5 *)

\* An upstream failure in the sense of the error taxonomy.
UpstreamFailure(r) ==
  \/ Threw(r)
  \/ GotResponse(r) /\ upstream[r].resp.status \notin 200..299

\* C5 as stated: a network error, a non-2xx upstream status and a malformed
\* body are each answered with the generic 500.
C5_EveryFailureGeneric500 ==
  \A r \in Reqs : (Responded(r) /\ UpstreamFailure(r)) => GenericError(r)

\* C5, amended: a network error and a body that cannot be read or parsed are
\* answered with the generic 500; an upstream response that can be read is
\* relayed with the upstream's own status, non-2xx included.
C5_OnlyThrowsGeneric500 ==
  \A r \in Reqs :
    (Responded(r) /\ upstream[r].kind # "none") =>
      IF Threw(r) THEN GenericError(r)
      ELSE LET up == upstream[r].resp IN
           /\ res[r].status = up.status
           /\ IF DeclaresJson(up)
              THEN res[r].body =
                     [kind |-> "json", doc |-> JSONserialize(JSONparse(up.body.doc))]
              ELSE res[r].body = [kind |-> "text", text |-> BodyText(up.body)]

C5_Witness ==
  \E r \in Reqs :
    /\ Responded(r) /\ GotResponse(r)
    /\ upstream[r].resp.status = 404 /\ res[r].status = 404

-----------------------------------------------------------------------------
(* C6 *)

\* C6 as stated: a response declared as JSON comes back with the upstream's
\* status and, as JSON, the value of the upstream body, whatever the status
\* and the body.
C6_JsonAlwaysRelayed ==
  \A r \in Reqs :
    (Responded(r) /\ GotResponse(r) /\ DeclaresJson(upstream[r].resp)) =>
      LET up == upstream[r].resp IN
      /\ res[r].status = up.status
      /\ res[r].body.kind = "json"
      /\ up.body.kind = "json"
      /\ JSONparse(res[r].body.doc) = JSONparse(up.body.doc)

\* C6, amended: a response declared as JSON whose body is read and parses
\* comes back with the upstream's status and JSON.stringify of the parsed
\* value, which denotes the upstream's value when no number literal lies
\* beyond the double range (such a number comes back as null); when reading or
\* parsing throws, the answer is the generic 500.
C6_ParsedJsonRelayed ==
  \A r \in Reqs :
    (Responded(r) /\ GotResponse(r) /\ DeclaresJson(upstream[r].resp)) =>
      LET up == upstream[r].resp IN
      IF up.readFails \/ up.body.kind # "json" THEN GenericError(r)
      ELSE /\ res[r].status = up.status
           /\ res[r].body.kind = "json"
           /\ res[r].body.doc = JSONserialize(JSONparse(up.body.doc))
           /\ InRange(up.body.doc) =>
                JSONparse(res[r].body.doc) = JSONparse(up.body.doc)

C6_Witness ==
  \E r \in Reqs :
    /\ Responded(r) /\ GotResponse(r)
    /\ upstream[r].resp.status = 200
    /\ upstream[r].resp.contentType = StrOf(<<"application/json">>)
    /\ ~upstream[r].resp.readFails
    /\ upstream[r].resp.body = JsonBody(Obj(<<<<"output", Str("hi")>>>>))
    /\ res[r].status = 200
    /\ ResBodyText(res[r]) = <<"{", "\"", "output", "\":", "\"", "hi", "\"", "}">>

-----------------------------------------------------------------------------
(* C7 *)

\* C7 as stated: a response not declared as JSON comes back as its raw text,
\* with the upstream's status and a content-type header equal to the
\* upstream's.
C7_TextAlwaysRelayed ==
  \A r \in Reqs :
    (Responded(r) /\ GotResponse(r) /\ ~DeclaresJson(upstream[r].resp)) =>
      LET up == upstream[r].resp IN
      /\ res[r].status = up.status
      /\ res[r].body = [kind |-> "text", text |-> BodyText(up.body)]
      /\ res[r].headers.contentType = up.contentType

\* C7, amended: the body is read as JSON or as text by the declared content
\* type alone; a response not declared as JSON whose body can be read comes
\* back as its raw text with the upstream's status and the upstream's
\* content-type header, the empty string when the upstream declares none; when
\* reading the body throws, the answer is the generic 500.
C7_ReadableTextRelayed ==
  \A r \in Reqs :
    GotResponse(r) =>
      LET up == upstream[r].resp IN
      /\ pc[r] \in {"json", "text", "done"}
      /\ pc[r] = "json" => DeclaresJson(up)
      /\ pc[r] = "text" => ~DeclaresJson(up)
      /\ (Responded(r) /\ ~DeclaresJson(up)) =>
           IF up.readFails THEN GenericError(r)
           ELSE /\ res[r].status = up.status
                /\ res[r].body = [kind |-> "text", text |-> BodyText(up.body)]
                /\ res[r].headers.contentType =
                     IF up.contentType = Null THEN Str("") ELSE up.contentType
      /\ (Responded(r) /\ res[r].body.kind = "text") => ~DeclaresJson(up)

C7_Witness ==
  \E r \in Reqs :
    /\ Responded(r) /\ GotResponse(r)
    /\ upstream[r].resp = UpResp(200, Str("text/plain"), RawBody(<<"plain text">>), FALSE)
    /\ res[r].status = 200
    /\ res[r].headers.contentType = Str("text/plain")
    /\ res[r].body = [kind |-> "text", text |-> <<"plain text">>]

-----------------------------------------------------------------------------
(* C8 *)

C8_State ==
  \A r \in Reqs :
    /\ Len(calls[r]) <= 1
    /\ pc[r] \in {"fetch", "json", "text"} => Len(calls[r]) = 1
    /\ Responded(r) =>
         Len(calls[r]) = IF IsPost(r) /\ ~ConfigAbsent THEN 1 ELSE 0

\* A step of one request leaves every other request as it was.
C8_Independent ==
  \A r1, r2 \in Reqs :
    (r1 # r2 /\ pc'[r1] # pc[r1]) =>
      /\ pc'[r2] = pc[r2] /\ req'[r2] = req[r2] /\ res'[r2] = res[r2]
      /\ calls'[r2] = calls[r2] /\ upstream'[r2] = upstream[r2]

\* C8: under every interleaving of the requests, a request causes exactly one
\* upstream call if it is a POST and both configuration values are present,
\* none otherwise, whatever the upstream outcome; no request's handling
\* touches another's.
C8_OneCallPerRequest == []C8_State /\ [][C8_Independent]_vars

C8_Witness ==
  \E r1, r2 \in Reqs :
    /\ r1 # r2
    /\ Responded(r1) /\ upstream[r1].kind = "rejected" /\ Len(calls[r1]) = 1
    /\ pc[r2] = "json" /\ Len(calls[r2]) = 1

-----------------------------------------------------------------------------
(* C9 *)

C9_State ==
  \A r \in Reqs :
    /\ (pc[r] # "idle" /\ IsPost(r) /\ ~ConfigAbsent) => Len(calls[r]) = 1
    /\ \A i \in DOMAIN calls[r] :
         /\ calls[r][i].method = "POST"
         /\ calls[r][i].url = env.THESYS_API_URL
         /\ calls[r][i].body = JSONstringify(req[r].body)
         /\ calls[r][i].headers =
              [contentType |-> <<"application/json">>,
               authorization |-> <<"Bearer ">> \o env.THESYS_API_KEY.s]

C9_BodyUntouched ==
  \A r \in Reqs : pc[r] # "idle" => req'[r] = req[r]

\* C9: for a POST with the configuration present, the one upstream request is
\* a POST to the configured URL with the JSON serialization of the inbound
\* body, Content-Type: application/json and Authorization: Bearer <credential>;
\* the inbound body is never changed.
C9_ForwardsBodyVerbatim == []C9_State /\ [][C9_BodyUntouched]_vars

C9_Witness ==
  \E r \in Reqs :
    /\ req[r].body = Obj(<<<<"prompt", Str("hi")>>>>)
    /\ Len(calls[r]) = 1
    /\ calls[r][1].body = <<"{", "\"", "prompt", "\":", "\"", "hi", "\"", "}">>
    /\ calls[r][1].headers.authorization = <<"Bearer ", "sk-thesys-1">>
    /\ calls[r][1].url = Str("https://api.thesys.ai/v1/generate")

-----------------------------------------------------------------------------
(* C10 *)

\* The field k of an object, missing on anything else.
FieldOf(v, k) ==
  IF v.t = "object" /\ \E i \in DOMAIN v.o : v.o[i][1] = k
  THEN (CHOOSE p \in {v.o[i] : i \in DOMAIN v.o} : p[1] = k)[2]
  ELSE Undefined

ElementZero(v) == IF v.t = "array" /\ v.a # <<>> THEN Head(v.a) ELSE Undefined

\* The candidates of the normalizer, in the order of the claim.
Candidates(j) ==
  <<FieldOf(j, "output"),
    FieldOf(ElementZero(FieldOf(j, "choices")), "text"),
    FieldOf(FieldOf(ElementZero(FieldOf(j, "choices")), "message"), "content")>>

\* Non-empty: not missing, null, "", 0 or false.
NonEmpty(v) ==
  /\ v \notin {Undefined, Null, Str(""), Bool(FALSE)}
  /\ v # Num(0)

\* The first non-empty candidate, else the whole payload serialized.
Resolved(j) ==
  LET c == Candidates(j) IN
  IF \E i \in 1..3 : NonEmpty(c[i])
  THEN c[CHOOSE i \in 1..3 : NonEmpty(c[i]) /\ \A k \in 1..(i - 1) : ~NonEmpty(c[k])]
  ELSE StrOf(JSONstringify(j))

\* C10: the assistant text is the first non-empty candidate among output,
\* choices[0].text and choices[0].message.content, in this order, else the
\* JSON serialization of the whole payload, coerced to a string.
C10_ResolutionOrder ==
  reply # NoReply => reply = [kind |-> "reply", text |-> ToJSString(Resolved(json))]

\* The same property on every payload but null, where reading `output` throws.
NormalizerOrderUnlessNull ==
  (reply # NoReply /\ json # Null) =>
    reply = [kind |-> "reply", text |-> ToJSString(Resolved(json))]

\* The four examples of the claim give the results it states.
NormalizerExamples ==
  reply # NoReply =>
    /\ json = Obj(<<<<"output", Str("z")>>, <<"choices", Arr(<<ChoiceY>>)>>>>)
         => reply.text = <<"z">>
    /\ json = Obj(<<<<"choices", Arr(<<ChoiceY>>)>>>>) => reply.text = <<"y">>
    /\ json = Obj(<<<<"choices", Arr(<<ChoiceX>>)>>>>) => reply.text = <<"x">>
    /\ json = Obj(<<<<"foo", Str("bar")>>>>)
         => reply.text = <<"{", "\"", "foo", "\":", "\"", "bar", "\"", "}">>

-----------------------------------------------------------------------------
(* C11 *)

\* C11: for every parsed JSON value, null, numbers, booleans, strings, arrays
\* and unrecognized objects included, the normalizer yields a string and does
\* not throw.
C11_NormalizerNeverThrows ==
  reply # NoReply => reply.kind = "reply"

\* The same property on every payload but null.
NormalizerThrowsOnlyOnNull ==
  (reply # NoReply /\ json # Null) => reply.kind = "reply"

-----------------------------------------------------------------------------
(* Vocabulary of the properties of the Chat component *)

\* Nothing but whitespace.
Blank(t) == \A i \in DOMAIN t : t[i] \in {" ", "\t"}

\* u is t without its leading and trailing whitespace.
IsTrimOf(u, t) ==
  /\ u # <<>> => ~Blank(<<u[1]>>) /\ ~Blank(<<u[Len(u)]>>)
  /\ \E a, b \in 0..Len(t) :
       /\ a + Len(u) + b = Len(t)
       /\ u = SubSeq(t, a + 1, a + Len(u))
       /\ Blank(SubSeq(t, 1, a))
       /\ Blank(SubSeq(t, Len(t) - b + 1, Len(t)))

\* The invocation s of send went past the check of its input.
Started(s) == spc[s] \in {"fetch", "text", "json", "done"}

\* Its request is issued and it has not finished.
Pending(s) == spc[s] \in {"fetch", "text", "json"}

Finished(s) == spc[s] = "done"

\* The messages the invocation s appended, by role.
Appended(s, role) ==
  {i \in DOMAIN messages : origin[i] = s /\ messages[i].role = role}

\* The fetch-and-parse cycle of the finished invocation s threw: fetch
\* rejected, the response was not ok, its body could not be read or parsed,
\* or the reply could not be extracted from it.
CycleThrew(s) ==
  \/ sres[s] = NoRes
  \/ sres[s].status \notin 200..299
  \/ sres[s].readFails
  \/ sres[s].body.kind # "json"
  \/ sres[s].body.doc = Null

IsPrefix(a, b) == Len(a) <= Len(b) /\ a = SubSeq(b, 1, Len(a))

-----------------------------------------------------------------------------
(* C12 *)

C12_State ==
  \A s \in Sends :
    /\ (Finished(s) /\ CycleThrew(s)) =>
         /\ Cardinality(Appended(s, "assistant")) = 1
         /\ \A i \in Appended(s, "assistant") :
              /\ Len(messages[i].text) >= 2
              /\ messages[i].text[1] = "Error: "
    /\ spc[s] \in {"idle", "returned", "fetch", "text", "json", "done"}

C12_Step ==
  \A s \in Sends : (Pending(s) /\ Finished(s)') => loading' = FALSE

\* C12: whatever throws between fetch and the extraction of the reply is
\* caught: the send ends with one assistant message whose text starts with
\* "Error:", and loading is reset to false as it ends.
C12_ErrorsBecomeMessages == []C12_State /\ [][C12_Step]_vars

C12_Witness ==
  \E s1, s2 \in Sends :
    /\ s1 # s2 /\ Finished(s1) /\ Finished(s2) /\ ~loading
    /\ sres[s1] = NoRes
    /\ \E i \in Appended(s1, "assistant") :
         messages[i].text = <<"Error: ", "Failed to fetch">>
    /\ sres[s2] # NoRes /\ sres[s2].status = 404
    /\ \E i \in Appended(s2, "assistant") :
         messages[i].text = <<"Error: ", "Upstream error">>

-----------------------------------------------------------------------------
(* C13 *)

C13_State ==
  \A i \in DOMAIN messages :
    /\ DOMAIN messages[i] = {"role", "text"}
    /\ messages[i].role \in {"user", "assistant"}
    /\ \A k \in DOMAIN messages[i].text : messages[i].text[k] \in STRING

C13_Step == IsPrefix(messages, messages')

\* C13: the message list only grows at its end: each step leaves the previous
\* list as a prefix of the new one, and every element is a {role, text} with
\* role "user" or "assistant" and a string text.
C13_AppendOnly == []C13_State /\ [][C13_Step]_vars

C13_Witness ==
  /\ Len(messages) = 4
  /\ messages[1].role = "user" /\ messages[2].role = "user"
  /\ messages[3].role = "assistant" /\ messages[4].role = "assistant"
  /\ origin[3] = 2 /\ origin[4] = 1

-----------------------------------------------------------------------------
(* C14 *)

\* C14: a send is not prevented while another is in flight: whenever a request
\* is in flight and the input is not blank, send can start again and issue
\* its own request.
C14_ReentrantSendNotPrevented ==
  \A s \in Sends :
    (/\ spc[s] = "idle" /\ \A k \in 1..(s - 1) : spc[k] # "idle"
     /\ \E k \in Sends : Pending(k)
     /\ ~Blank(input))
    => ENABLED SendStarts(s)

C14_Witness ==
  \E s1, s2 \in Sends :
    /\ s1 < s2
    /\ spc[s1] = "fetch" /\ Len(requests[s1]) = 1
    /\ spc[s2] = "fetch" /\ Len(requests[s2]) = 1

-----------------------------------------------------------------------------
(* C16 *)

\* C16: loading is true in every state in which some send has issued its
\* request and has not finished, whatever the interleaving of the sends.
C16_LoadingWhilePending == (\E s \in Sends : Pending(s)) => loading

-----------------------------------------------------------------------------
(* C17 *)

C17_State ==
  /\ \A s \in Sends :
       IF Started(s)
       THEN /\ Len(requests[s]) = 1
            /\ Cardinality(Appended(s, "user")) = 1
            /\ \A i \in Appended(s, "user") :
                 /\ messages[i].text # <<>>
                 /\ IsTrimOf(messages[i].text, sent[s])
            /\ Cardinality(Appended(s, "assistant")) = IF Finished(s) THEN 1 ELSE 0
            /\ \A i \in Appended(s, "user"), j \in Appended(s, "assistant") : i < j
            /\ \A j \in Appended(s, "assistant") :
                 IF CycleThrew(s) THEN messages[j].text[1] = "Error: "
                 ELSE messages[j].text =
                        ToJSString(Resolved(JSONparse(sres[s].body.doc)))
       ELSE /\ requests[s] = <<>>
            /\ \A i \in DOMAIN messages : origin[i] # s
  /\ (\A s \in Sends : ~Pending(s)) =>
       Len(messages) = 2 * Cardinality({s \in Sends : Started(s)})

\* C17: a send with non-blank input appends its user message, the trimmed
\* input, as it issues its request, and one assistant message when it ends,
\* the normalized reply or an "Error:" message; the user message precedes the
\* assistant message, and with no send in flight the list holds two messages
\* per send.
C17_TwoMessagesPerSend == C17_State

C17_Witness ==
  /\ \A s \in Sends : Finished(s)
  /\ Len(messages) = 2 * MaxSends
  /\ origin[1] = 1 /\ origin[2] = 2
  /\ sent[1] = <<" ", "yo", "\t">> /\ messages[1].text = <<"yo">>
  /\ \E i \in DOMAIN messages :
       messages[i] = [role |-> "assistant", text |-> <<"z">>]

-----------------------------------------------------------------------------
(* C18 *)

C18_State ==
  \A s \in Sends :
    spc[s] = "returned" =>
      /\ Blank(sent[s])
      /\ requests[s] = <<>>
      /\ \A i \in DOMAIN messages : origin[i] # s

C18_Step ==
  \A s \in Sends :
    (spc[s] = "idle" /\ spc'[s] # "idle" /\ Blank(input)) =>
      /\ spc'[s] = "returned"
      /\ UNCHANGED <<input, messages, loading, requests>>

\* C18: send with an empty or all-whitespace input does nothing: no message,
\* no request, and input, messages and loading stay as they were.
C18_BlankSendIsNoOp == []C18_State /\ [][C18_Step]_vars

C18_Witness ==
  \E s1, s2 \in Sends :
    /\ spc[s1] = "returned" /\ sent[s1] = <<" ">>
    /\ Pending(s2) /\ loading

-----------------------------------------------------------------------------
(* Vocabulary of the properties of the manifest generator *)

NoFile(e) == e.kind = "missing"

\* package.json is missing, is not JSON, or holds no script.
NoScripts ==
  \/ NoFile(fs.package)
  \/ fs.package.text.body.kind # "json"
  \/ LET doc == fs.package.text.body.doc IN
     \/ doc.t # "object"
     \/ \A i \in DOMAIN doc.o : doc.o[i][1] # "scripts"
     \/ \E i \in DOMAIN doc.o : doc.o[i][1] = "scripts" /\ doc.o[i][2] = Obj(<<>>)

FiveHeuristicScripts(ps) ==
  /\ [i \in DOMAIN ps |-> ps[i].name] = <<"dev", "build", "start", "lint", "format:fix">>
  /\ \A i \in DOMAIN ps : ps[i].source = "heuristic"

\* The generator has run to its end and written m.
Completed == tpc = "done" /\ manifest # NoManifest

\* The detected URL the loop of mapExternalApis takes in this step.
TakesUrl == tpc = "match" /\ detected # <<>> /\ detected' = Tail(detected)

ExternalApiFor(d) ==
  [name |-> "External API", endpoints |-> <<d.url>>, env |-> <<>>,
   detectedIn |-> <<d.file>>, confidence |-> "low"]

-----------------------------------------------------------------------------
(* C15 *)

\* C15: with .env.example, README.md, package.json or src missing, or a
\* package.json that is not JSON or holds no script, the generator does not
\* throw and runs to its end; a missing input contributes nothing to the
\* manifest, and packageScripts is the five heuristic scripts.
C15_SafeOnPartialFiles ==
  /\ tpc # "threw"
  /\ tpc \in {"start", "map", "match"} => ENABLED ManifestNext
  /\ tpc = "done" =>
       /\ Completed
       /\ NoScripts => FiveHeuristicScripts(manifest.packageScripts)
       /\ NoFile(fs.envExample) =>
            \A i \in DOMAIN manifest.environmentVariables :
              ~\E k \in DOMAIN manifest.environmentVariables[i].foundIn :
                 manifest.environmentVariables[i].foundIn[k] = <<".env.example">>
       /\ NoFile(fs.readme) =>
            \A i \in DOMAIN manifest.environmentVariables :
              ~\E k \in DOMAIN manifest.environmentVariables[i].foundIn :
                 manifest.environmentVariables[i].foundIn[k] = <<"README.md">>
       /\ (NoFile(fs.envExample) /\ NoFile(fs.readme)) =>
            manifest.environmentVariables = <<>> /\ envVars = <<>>
       /\ NoFile(fs.package) =>
            \A i \in DOMAIN manifest.filesScanned :
              manifest.filesScanned[i] # <<"package.json">>
       /\ NoFile(fs.src) =>
            /\ manifest.routes = <<>>
            /\ \A i \in DOMAIN manifest.externalApis :
                 manifest.externalApis[i].detectedIn = <<>>
            /\ \A i \in DOMAIN manifest.filesScanned :
                 manifest.filesScanned[i][1] # "src"

C15_Witness ==
  /\ Completed
  /\ NoFile(fs.src) /\ NoFile(fs.readme)
  /\ ~NoFile(fs.package) /\ fs.package.text.body.kind = "raw"
  /\ Len(manifest.environmentVariables) = 3
  /\ Len(manifest.externalApis) = 3
  /\ manifest.filesScanned = <<<<".env.example">>, <<"package.json">>>>
  /\ Len(manifest.packageScripts) = 5

\* With nothing but the working directory.
C15_EmptyDirWitness ==
  /\ Completed /\ fs = EmptyDir
  /\ manifest.filesScanned = <<>> /\ manifest.externalApis = <<>>

-----------------------------------------------------------------------------
(* C19 *)

C19_Step ==
  TakesUrl =>
    LET d == detected[1] IN
    /\ \A i \in DOMAIN apis :
         apis'[i].detectedIn # apis[i].detectedIn =>
           apis[i].endpoints # <<>> /\ IsPrefix(apis[i].endpoints[1], d.url)
    /\ (\A i \in DOMAIN apis : \A k \in DOMAIN apis[i].endpoints :
          ~IsPrefix(apis[i].endpoints[k], d.url))
       => apis' = Append(apis, ExternalApiFor(d))

\* C19: a detected URL is added to the detectedIn of an existing entry only
\* if it starts with the first endpoint of that entry, and a URL that starts
\* with no endpoint of any entry gives a new "External API" entry with that
\* URL as endpoint and confidence "low", whichever env vars are present.
C19_EndpointMatch == [][C19_Step]_vars

\* The same property while every entry lists an endpoint.
EndpointMatchUnlessNoEndpoint ==
  [][(\A i \in DOMAIN apis : apis[i].endpoints # <<>>) => C19_Step]_vars

====
